---- MODULE Spec2Model ----
(***************************************************************************)
(* Mock2CSV (src/src/Mock2CSV.ts): the line formatter (getLineString,      *)
(* getHeaderLine, getRecordLine) and the record stream writer (generate,   *)
(* generateAsync, generateToStream, generateRecordString) over Node        *)
(* write streams, the configuration (constructor, setters) and the time    *)
(* label of the completion summary (getTimeString).                        *)
(*                                                                         *)
(* A JavaScript string is a sequence of one-character strings.  Every      *)
(* public method runs to completion (JavaScript has one thread and the     *)
(* methods hold no await before their last statement), so each is one      *)
(* action; the events of a stream (finish, error) and the continuation of  *)
(* an await are delivered by actions of their own.                         *)
(***************************************************************************)
EXTENDS Integers, Sequences, FiniteSets, TLC

VARIABLES
  options,   \* this.options of the Mock2CSV instance
  schema,    \* the caller's Schema object: its columns in insertion order
  count,     \* the record count the caller asks for
  user_id,   \* the counter a stateful generator closes over (README: user_id++)
  streams,   \* every WriteStream created so far
  asyncs,    \* the generateAsync calls: their promises
  console,   \* what console.log has printed
  lastCall,  \* the last public call, its arguments and what it returned
  ncalls,    \* the number of public calls made
  uncaught,  \* an 'error' event found no listener: Node ends the process
  lineIn,    \* the values handed to getLineString (line formatter alone)
  lineOut,   \* the line getLineString returned for lineIn
  linePc,    \* "input" before getLineString ran, "formatted" after
  nsets,     \* the number of setter calls made
  given,     \* history: the last defined value the caller supplied, per field
  invoked,   \* history: the key of every generator invoked, in order
  startTime, \* the startTime handed to getTimeString (time label alone)
  endTime,   \* the endTime handed to getTimeString
  timeString \* the label getTimeString returned for them

vars == <<options, schema, count, user_id, streams, asyncs, console, lastCall,
          ncalls, uncaught, lineIn, lineOut, linePc, nsets, given, invoked,
          startTime, endTime, timeString>>

(***************************************************************************)
(* Bounds of the model.                                                    *)
(***************************************************************************)
MaxRecords == 2
MaxCalls == 2
MaxCallerStreams == 1
MaxCols == 2
MaxValueLen == 2
MaxSets == 1
MaxMinutes == 4

(***************************************************************************)
(* JavaScript string primitives used by getLineString.                     *)
(***************************************************************************)
Min(S) == CHOOSE m \in S : \A o \in S : m <= o

\* ECMAScript StringIndexOf: the first 0-based position >= from at which
\* pat occurs in str, or -1.  The empty pattern occurs at every position.
StringIndexOf(str, pat, from) ==
  LET at == {i \in from..(Len(str) - Len(pat)) :
               SubSeq(str, i + 1, i + Len(pat)) = pat}
  IN IF at = {} THEN -1 ELSE Min(at)

\* String.prototype.includes
includes(str, pat) == StringIndexOf(str, pat, 0) # -1

\* ECMAScript GetSubstitution for a string pattern (no capture groups): in
\* the replacement text $$ is a dollar, $& the matched text and $' the text
\* after the match; any other $ stands for itself.  ($ followed by a grave
\* accent is the text before the match: no string of the model holds a
\* grave accent, so that rule never applies and is left out.)
RECURSIVE GetSubstitution(_, _, _, _)
GetSubstitution(matched, str, position, tmpl) ==
  IF tmpl = <<>> THEN <<>>
  ELSE IF Head(tmpl) = "$" /\ Len(tmpl) >= 2 /\ tmpl[2] \in {"$", "&", "'"}
  THEN LET rest == GetSubstitution(matched, str, position, SubSeq(tmpl, 3, Len(tmpl)))
       IN CASE tmpl[2] = "$" -> <<"$">> \o rest
            [] tmpl[2] = "&" -> matched \o rest
            [] tmpl[2] = "'" ->
                 SubSeq(str, position + Len(matched) + 1, Len(str)) \o rest
  ELSE <<Head(tmpl)>> \o GetSubstitution(matched, str, position, Tail(tmpl))

\* The loop of String.prototype.replaceAll: pos is the match being replaced
\* (-1: none left), endOfLastMatch where the previous one ended.
RECURSIVE ReplaceFrom(_, _, _, _, _)
ReplaceFrom(str, pat, tmpl, pos, endOfLastMatch) ==
  IF pos = -1 THEN SubSeq(str, endOfLastMatch + 1, Len(str))
  ELSE LET advanceBy == IF Len(pat) > 1 THEN Len(pat) ELSE 1
       IN SubSeq(str, endOfLastMatch + 1, pos)
            \o GetSubstitution(pat, str, pos, tmpl)
            \o ReplaceFrom(str, pat, tmpl,
                           StringIndexOf(str, pat, pos + advanceBy),
                           pos + Len(pat))

\* String.prototype.replaceAll(pat, tmpl) with a string pattern
replaceAll(str, pat, tmpl) ==
  ReplaceFrom(str, pat, tmpl, StringIndexOf(str, pat, 0), 0)

\* String.prototype.slice(0, -1): all but the last character
sliceLast(line) == SubSeq(line, 1, Len(line) - 1)

(***************************************************************************)
(* Options                                                                 *)
(***************************************************************************)
DefaultOptions ==
  [header |-> TRUE, delimiter |-> <<",">>, quote |-> <<"\"">>,
   escape |-> <<"\"">>, newLine |-> <<"\n">>, logging |-> FALSE]

\* { ...base, ...over }: over's own fields win
Spread(base, over) ==
  [f \in DOMAIN base \cup DOMAIN over |->
     IF f \in DOMAIN over THEN over[f] ELSE base[f]]

\* constructor(options): this.options = { ...new DefaultOptions(), ...options }
constructor(over) == Spread(DefaultOptions, over)

\* the JavaScript value undefined where a string is expected: no string, as
\* every string of the model is a sequence of one-character strings
Undefined == <<"undefined">>

\* the options that are strings; header and logging are booleans
StringFields == {"delimiter", "quote", "escape", "newLine"}

\* the fields of over that hold a value (a field set to undefined holds none)
Defined(over) ==
  [f \in {g \in DOMAIN over : g \notin StringFields \/ over[g] # Undefined} |->
     over[f]]

(***************************************************************************)
(* Line formatter                                                          *)
(***************************************************************************)
\* "if value has quote add escape (all)"
escapeValue(opts, value) ==
  IF includes(value, opts.quote)
  THEN replaceAll(value, opts.quote, opts.escape \o opts.quote)
  ELSE value

\* the body of getLineString's forEach for one value: escape, then append
\* quote value quote delimiter to the line
appendValue(opts, line, value) ==
  line \o opts.quote \o escapeValue(opts, value) \o opts.quote \o opts.delimiter

RECURSIVE forEachValue(_, _, _)
forEachValue(opts, line, values) ==
  IF values = <<>> THEN line
  ELSE forEachValue(opts, appendValue(opts, line, Head(values)), Tail(values))

getLineString(opts, values) ==
  sliceLast(forEachValue(opts, <<>>, values)) \o opts.newLine

(***************************************************************************)
(* Schema: [key: string]: () => string.  A column is its key and its       *)
(* generator: kind "const" returns val at every call, kind "counter" is    *)
(* () => (user_id++).toString() over the shared counter user_id.           *)
(***************************************************************************)
Const(key, val) == [key |-> key, kind |-> "const", val |-> val]
Counter(key) == [key |-> key, kind |-> "counter", val |-> <<>>]

testSchema ==
  << Const(<<"u","s","e","r","I","d">>, <<"1">>),
     Const(<<"n","i","c","k","n","a","m","e">>, <<"t","e","s","t">>) >>

escapeTestSchema ==
  << Const(<<"u","s","e","r","I","d">>, <<"\"","1","\"">>),
     Const(<<"n","i","c","k","n","a","m","e">>, <<"\"","t","e",",","s","t","\n">>) >>

\* two stateful columns over one counter
serialSchema == << Counter(<<"i","d">>), Counter(<<"s","e","q">>) >>

\* no column at all
emptySchema == << >>

\* a column whose name is an integer, inserted after a column that is not
yearSchema == << Const(<<"n","a","m","e">>, <<"a">>), Const(<<"7">>, <<"b">>),
                 Const(<<"1","0">>, <<"c">>) >>

Schemas == <<testSchema, escapeTestSchema, serialSchema, emptySchema, yearSchema>>

Digits == <<"0", "1", "2", "3", "4", "5", "6", "7", "8", "9">>
IsDigit(c) == \E d \in 1..Len(Digits) : Digits[d] = c
DigitValue(c) == (CHOOSE d \in 1..Len(Digits) : Digits[d] = c) - 1

\* the number a string of digits denotes
RECURSIVE ToNumber(_)
ToNumber(str) ==
  IF str = <<>> THEN 0
  ELSE 10 * ToNumber(SubSeq(str, 1, Len(str) - 1)) + DigitValue(str[Len(str)])

\* Number.prototype.toString for an integer >= 0
RECURSIVE NumberToString(_)
NumberToString(n) ==
  IF n < 10 THEN <<Digits[n + 1]>>
  ELSE NumberToString(n \div 10) \o <<Digits[(n % 10) + 1]>>

\* ECMAScript array index: the canonical decimal form of an integer
\* in 0..2^32-2
IsArrayIndex(key) ==
  /\ key # <<>>
  /\ \A i \in 1..Len(key) : IsDigit(key[i])
  /\ (Len(key) = 1 \/ key[1] # "0")
  /\ Len(key) <= 9

\* the keys of nums in ascending numeric order
RECURSIVE Ascending(_)
Ascending(nums) ==
  IF nums = {} THEN <<>>
  ELSE LET least == CHOOSE k \in nums :
                      \A o \in nums : ToNumber(k) <= ToNumber(o)
       IN <<least>> \o Ascending(nums \ {least})

\* the keys of sch that are array indices (or, keepIndex FALSE, are not), in
\* insertion order
RECURSIVE InsertionOrder(_, _)
InsertionOrder(sch, keepIndex) ==
  IF sch = <<>> THEN <<>>
  ELSE (IF IsArrayIndex(Head(sch).key) = keepIndex THEN <<Head(sch).key>> ELSE <<>>)
         \o InsertionOrder(Tail(sch), keepIndex)

\* Object.keys(schema) (ECMAScript OrdinaryOwnPropertyKeys): the array
\* indices in ascending numeric order, then the other keys in the order
\* they were inserted
ObjectKeys(sch) ==
  Ascending({sch[i].key : i \in {j \in 1..Len(sch) : IsArrayIndex(sch[j].key)}})
    \o InsertionOrder(sch, FALSE)

\* schema[key]
Column(sch, key) == sch[CHOOSE i \in 1..Len(sch) : sch[i].key = key]

\* schema[key](): the value returned and the counter afterwards
Invoke(col, uid) ==
  IF col.kind = "counter" THEN [value |-> NumberToString(uid), uid |-> uid + 1]
  ELSE [value |-> col.val, uid |-> uid]

\* Object.keys(schema).map((key) => schema[key]()): the generators run in
\* the order of keys; invoked lists the keys whose generator was invoked
RECURSIVE mapGenerators(_, _, _)
mapGenerators(sch, keys, uid) ==
  IF keys = <<>> THEN [values |-> <<>>, uid |-> uid, invoked |-> <<>>]
  ELSE LET first == Invoke(Column(sch, Head(keys)), uid)
           rest == mapGenerators(sch, Tail(keys), first.uid)
       IN [values |-> <<first.value>> \o rest.values, uid |-> rest.uid,
           invoked |-> <<Head(keys)>> \o rest.invoked]

getHeaderLine(opts, sch) == getLineString(opts, ObjectKeys(sch))

\* the record line, the counter afterwards and the generators invoked
getRecordLine(opts, sch, uid) ==
  LET m == mapGenerators(sch, ObjectKeys(sch), uid)
  IN [line |-> getLineString(opts, m.values), uid |-> m.uid, invoked |-> m.invoked]

\* the loop of generateRecordString from index i: csvString += getRecordLine
RECURSIVE appendRecords(_, _, _, _, _, _)
appendRecords(opts, sch, i, recordNum, csvString, uid) ==
  IF i < recordNum
  THEN LET r == getRecordLine(opts, sch, uid)
           rest == appendRecords(opts, sch, i + 1, recordNum, csvString \o r.line,
                                 r.uid)
       IN [rest EXCEPT !.invoked = r.invoked \o @]
  ELSE [csvString |-> csvString, uid |-> uid, invoked |-> <<>>]

\* generateRecordString starting from the header line when options.header
generateRecordString_WithHeader(opts, sch, recordNum, uid) ==
  appendRecords(opts, sch, 0, recordNum,
                IF opts.header THEN getHeaderLine(opts, sch) ELSE <<>>, uid)

generateRecordString(opts, sch, recordNum, uid) ==
  appendRecords(opts, sch, 0, recordNum, <<>>, uid)

\* one iteration of the loop of writeRecordsToStream:
\* stream.write(this.getRecordLine(schema)); i++
writeRecord(opts, sch, i, chunks, uid) ==
  LET r == getRecordLine(opts, sch, uid)
  IN [i |-> i + 1, chunks |-> Append(chunks, r.line), uid |-> r.uid,
      invoked |-> r.invoked]

\* the loop of writeRecordsToStream from index i, for (; i < recordNum; i++):
\* the index, the chunks and the counter it ends with.  A run of several
\* iterations is its first half and then, from where that half ended, the
\* rest, so that a loop of 10 000 iterations is evaluated 14 calls deep.
RECURSIVE writeRecords(_, _, _, _, _, _)
writeRecords(opts, sch, i, recordNum, chunks, uid) ==
  IF i >= recordNum
  THEN [i |-> i, chunks |-> chunks, uid |-> uid, invoked |-> <<>>]
  ELSE IF i + 1 = recordNum THEN writeRecord(opts, sch, i, chunks, uid)
  ELSE LET first == writeRecords(opts, sch, i, (i + recordNum) \div 2, chunks, uid)
           rest == writeRecords(opts, sch, first.i, recordNum, first.chunks,
                                first.uid)
       IN [rest EXCEPT !.invoked = first.invoked \o @]

\* writeRecordsToStream with the loop running to i <= recordNum
writeRecordsToStream_OneMore(opts, sch, recordNum, chunks, uid) ==
  writeRecords(opts, sch, 0, recordNum + 1,
               IF opts.header THEN Append(chunks, getHeaderLine(opts, sch))
               ELSE chunks,
               uid)

\* writeRecordsToStream: the chunks of the stream and the counter afterwards
writeRecordsToStream(opts, sch, recordNum, chunks, uid) ==
  writeRecords(opts, sch, 0, recordNum,
               IF opts.header THEN Append(chunks, getHeaderLine(opts, sch))
               ELSE chunks,
               uid)

\* log(message)
log(opts, out, message) == IF opts.logging THEN Append(out, message) ELSE out

\* logEndMessage: six log calls
logEndMessage(opts, out) ==
  log(opts, log(opts, log(opts, log(opts, log(opts, log(opts, out,
      "========"), "File saved to"), "Execution time"), "File size"),
      "Done!"), "========")

(***************************************************************************)
(* Node write streams.  write() appends a chunk, end() asks the stream to  *)
(* finish; the stream answers later, in a turn of the event loop of its    *)
(* own, with 'finish' or with 'error'.  calls is history: which public     *)
(* calls wrote to the stream, with the options, the count, the number of   *)
(* chunks before and the counter before.                                   *)
(***************************************************************************)
Errors == {"ENOENT", "ENOSPC"}

\* fs.createWriteStream
createWriteStream(owner) ==
  [owner |-> owner, chunks |-> <<>>, state |-> "open", ends |-> <<>>,
   endAt |-> -1, onFinish |-> <<>>, onError |-> <<>>, signal |-> "none",
   err |-> "none", missed |-> FALSE, calls |-> <<>>]

\* stream.on(event, listener)
on(stream, event, listener) ==
  IF event = "finish" THEN [stream EXCEPT !.onFinish = Append(@, listener)]
  ELSE [stream EXCEPT !.onError = Append(@, listener)]

\* stream.end() called by who
end(stream, who) ==
  [stream EXCEPT !.ends = Append(@, who),
                 !.endAt = IF stream.ends = <<>> THEN Len(stream.chunks) ELSE @,
                 !.state = IF @ = "open" THEN "ended" ELSE @]

CallRecord(op, opts, recordNum, before, uid) ==
  [op |-> op, opts |-> opts, n |-> recordNum, before |-> before, uid |-> uid]

\* the stream after writeRecordsToStream(schema, recordNum, stream)
written(stream, op, opts, sch, recordNum, uid) ==
  [stream EXCEPT
     !.chunks = writeRecordsToStream(opts, sch, recordNum, @, uid).chunks,
     !.calls = Append(@, CallRecord(op, opts, recordNum, Len(stream.chunks), uid))]

NoCall == [op |-> "none", n |-> 0, ret |-> <<>>, threw |-> "none", stream |-> 0,
           opts |-> DefaultOptions, uid |-> 0]

Call(op, recordNum, ret, stream) ==
  [op |-> op, n |-> recordNum, ret |-> ret, threw |-> "none", stream |-> stream,
   opts |-> options, uid |-> user_id]

\* the record counts callers pass, a negative one among them
RecordNums == -1..MaxRecords

\* a settled promise whose await has not resumed yet: its continuation is a
\* microtask and runs before any other turn of the event loop
MicrotaskPending ==
  \E a \in 1..Len(asyncs) : asyncs[a].inner # "pending" /\ asyncs[a].outer = "pending"

\* the process is alive and at the start of a turn of the event loop
Idle == ~uncaught /\ ~MicrotaskPending

(***************************************************************************)
(* The public methods                                                      *)
(***************************************************************************)
\* generate printing the completion summary as it returns, without waiting
\* for the stream to finish
generate_SummaryAtOnce(recordNum) ==
  /\ Idle /\ ncalls < MaxCalls
  /\ LET created == createWriteStream("writer")
         wrote == written(created, "generate", options, schema, recordNum, user_id)
     IN /\ console' = logEndMessage(options,
                                    log(options, console, "Generating records..."))
        /\ streams' = Append(streams, end(wrote, "writer"))
        /\ user_id' =
             writeRecordsToStream(options, schema, recordNum, <<>>, user_id).uid
        /\ invoked' = invoked
             \o writeRecordsToStream(options, schema, recordNum, <<>>, user_id).invoked
        /\ lastCall' = Call("generate", recordNum, <<>>, Len(streams) + 1)
  /\ ncalls' = ncalls + 1
  /\ UNCHANGED <<options, schema, count, asyncs, uncaught, lineIn, lineOut, linePc,
                 nsets, given, startTime, endTime, timeString>>

\* generate(schema, recordNum, filePath)
generate(recordNum) ==
  /\ Idle /\ ncalls < MaxCalls
  /\ LET created == createWriteStream("writer")
         listening == on(created, "finish", [kind |-> "logEndMessage", id |-> 0])
         wrote == written(listening, "generate", options, schema, recordNum, user_id)
     IN /\ console' = log(options, console, "Generating records...")
        /\ streams' = Append(streams, end(wrote, "writer"))
        /\ user_id' =
             writeRecordsToStream(options, schema, recordNum, <<>>, user_id).uid
        /\ invoked' = invoked
             \o writeRecordsToStream(options, schema, recordNum, <<>>, user_id).invoked
        /\ lastCall' = Call("generate", recordNum, <<>>, Len(streams) + 1)
  /\ ncalls' = ncalls + 1
  /\ UNCHANGED <<options, schema, count, asyncs, uncaught, lineIn, lineOut, linePc,
                 nsets, given, startTime, endTime, timeString>>

\* writeRecrodsToStreamAsync writing the records without the header line
writeRecrodsToStreamAsync_NoHeader(stream, recordNum, id) ==
  LET wrote ==
        end([stream EXCEPT
               !.chunks = writeRecords(options, schema, 0, recordNum, @, user_id).chunks,
               !.calls = Append(@, CallRecord("generateAsync", options, recordNum,
                                              Len(stream.chunks), user_id))],
            "writer")
  IN on(on(wrote, "finish", [kind |-> "resolve", id |-> id]),
        "error", [kind |-> "reject", id |-> id])

\* writeRecrodsToStreamAsync registering the finish listener alone
writeRecrodsToStreamAsync_NoErrorListener(stream, recordNum, id) ==
  on(end(written(stream, "generateAsync", options, schema, recordNum, user_id),
         "writer"),
     "finish", [kind |-> "resolve", id |-> id])

\* writeRecrodsToStreamAsync: log, write, end, then the promise whose
\* executor registers the finish and the error listener
writeRecrodsToStreamAsync(stream, recordNum, id) ==
  LET wrote == end(written(stream, "generateAsync", options, schema, recordNum,
                           user_id), "writer")
  IN on(on(wrote, "finish", [kind |-> "resolve", id |-> id]),
        "error", [kind |-> "reject", id |-> id])

\* generateAsync(schema, recordNum, filePath) up to its await
generateAsync(recordNum) ==
  /\ Idle /\ ncalls < MaxCalls
  /\ LET id == Len(asyncs) + 1
         created == createWriteStream("writer")
     IN /\ console' = log(options, console, "Generating records...")
        /\ streams' = Append(streams, writeRecrodsToStreamAsync(created, recordNum, id))
        /\ asyncs' = Append(asyncs, [stream |-> Len(streams) + 1, inner |-> "pending",
                                     outer |-> "pending", err |-> "none"])
        /\ user_id' =
             writeRecordsToStream(options, schema, recordNum, <<>>, user_id).uid
        /\ invoked' = invoked
             \o writeRecordsToStream(options, schema, recordNum, <<>>, user_id).invoked
        /\ lastCall' = Call("generateAsync", recordNum, <<>>, Len(streams) + 1)
  /\ ncalls' = ncalls + 1
  /\ UNCHANGED <<options, schema, count, uncaught, lineIn, lineOut, linePc,
                 nsets, given, startTime, endTime, timeString>>

\* the continuation of generateAsync's await: logEndMessage and a fulfilled
\* result when the promise was resolved, a rejected result when it was
\* rejected
resumeAsync(a) ==
  /\ ~uncaught
  /\ asyncs[a].inner # "pending" /\ asyncs[a].outer = "pending"
  /\ asyncs' = [asyncs EXCEPT ![a].outer = asyncs[a].inner]
  /\ console' = IF asyncs[a].inner = "fulfilled" THEN logEndMessage(options, console)
                ELSE console
  /\ UNCHANGED <<options, schema, count, user_id, streams, lastCall, ncalls, uncaught,
                 lineIn, lineOut, linePc,
                 nsets, given, invoked, startTime, endTime, timeString>>

\* generateToStream ending the stream as generate does
generateToStream_Ends(recordNum, s) ==
  /\ Idle /\ ncalls < MaxCalls
  /\ streams[s].owner = "caller" /\ streams[s].state = "open"
  /\ console' = log(options, console, "Generating records to stream...")
  /\ streams' = [streams EXCEPT
                   ![s] = end(written(@, "generateToStream", options, schema,
                                      recordNum, user_id), "writer")]
  /\ user_id' = writeRecordsToStream(options, schema, recordNum, <<>>, user_id).uid
  /\ invoked' = invoked
       \o writeRecordsToStream(options, schema, recordNum, <<>>, user_id).invoked
  /\ lastCall' = Call("generateToStream", recordNum, <<>>, s)
  /\ ncalls' = ncalls + 1
  /\ UNCHANGED <<options, schema, count, asyncs, uncaught, lineIn, lineOut, linePc,
                 nsets, given, startTime, endTime, timeString>>

\* generateToStream(schema, recordNum, stream) on a stream of the caller's
\* that the caller has not ended
generateToStream(recordNum, s) ==
  /\ Idle /\ ncalls < MaxCalls
  /\ streams[s].owner = "caller" /\ streams[s].state = "open"
  /\ console' = log(options, console, "Generating records to stream...")
  /\ streams' = [streams EXCEPT
                   ![s] = written(@, "generateToStream", options, schema,
                                  recordNum, user_id)]
  /\ user_id' = writeRecordsToStream(options, schema, recordNum, <<>>, user_id).uid
  /\ invoked' = invoked
       \o writeRecordsToStream(options, schema, recordNum, <<>>, user_id).invoked
  /\ lastCall' = Call("generateToStream", recordNum, <<>>, s)
  /\ ncalls' = ncalls + 1
  /\ UNCHANGED <<options, schema, count, asyncs, uncaught, lineIn, lineOut, linePc,
                 nsets, given, startTime, endTime, timeString>>

\* generateRecordString(schema, recordNum) called by the caller
callGenerateRecordString(recordNum) ==
  /\ Idle /\ ncalls < MaxCalls
  /\ LET r == generateRecordString(options, schema, recordNum, user_id)
     IN /\ lastCall' = Call("generateRecordString", recordNum, r.csvString, 0)
        /\ user_id' = r.uid
        /\ invoked' = invoked \o r.invoked
  /\ ncalls' = ncalls + 1
  /\ UNCHANGED <<options, schema, count, streams, asyncs, console, uncaught, lineIn,
                 lineOut, linePc,
                 nsets, given, startTime, endTime, timeString>>

(***************************************************************************)
(* The setters.  Each is one assignment to this.options (setOptions        *)
(* spreads its argument over the options held).                            *)
(***************************************************************************)
\* the values callers hand to the setters of the four string options
SetStrings == {<<";">>, <<"'">>}
SetNewLines == {<<"\n">>, <<"\r", "\n">>}

\* what callers pass to setOptions: the object of its example, a patch of
\* one field, the empty object
SetOverrides ==
  << [header |-> FALSE, delimiter |-> <<";">>, quote |-> <<"'">>,
      escape |-> <<"'">>, newLine |-> <<"\n">>],
     [logging |-> TRUE],
     << >> >>

\* what every setter leaves alone
setterFrame ==
  UNCHANGED <<schema, count, user_id, streams, asyncs, console, lastCall, ncalls,
              uncaught, lineIn, lineOut, linePc, invoked, startTime, endTime,
              timeString>>

\* setOptions(options): this.options = { ...this.options, ...options }
setOptions(over) ==
  /\ Idle /\ nsets < MaxSets
  /\ options' = Spread(options, over)
  /\ given' = Spread(given, Defined(over))
  /\ nsets' = nsets + 1
  /\ setterFrame

\* setHeader, setDelimiter, setQuote, setEscape, setNewLine, setLogging:
\* this.options.field = value
setField(field, value) ==
  /\ Idle /\ nsets < MaxSets
  /\ options' = [options EXCEPT ![field] = value]
  /\ given' = Spread(given, Defined([f \in {field} |-> value]))
  /\ nsets' = nsets + 1
  /\ setterFrame

setHeader(header) == setField("header", header)
setDelimiter(delimiter) == setField("delimiter", delimiter)
setQuote(quote) == setField("quote", quote)
setEscape(escape) == setField("escape", escape)
setNewLine(newLine) == setField("newLine", newLine)
setLogging(logging) == setField("logging", logging)

\* any one setter call
setters ==
  \/ \E o \in 1..Len(SetOverrides) : setOptions(SetOverrides[o])
  \/ \E b \in BOOLEAN : setHeader(b)
  \/ \E d \in SetStrings : setDelimiter(d)
  \/ \E q \in SetStrings : setQuote(q)
  \/ \E e \in SetStrings : setEscape(e)
  \/ \E nl \in SetNewLines : setNewLine(nl)
  \/ \E b \in BOOLEAN : setLogging(b)

(***************************************************************************)
(* The caller's own stream, and the events of the streams                  *)
(***************************************************************************)
\* the caller: const stream = fs.createWriteStream(filePath, {autoClose: true})
callerCreatesStream ==
  /\ Idle
  /\ Cardinality({s \in 1..Len(streams) : streams[s].owner = "caller"})
       < MaxCallerStreams
  /\ streams' = Append(streams, createWriteStream("caller"))
  /\ UNCHANGED <<options, schema, count, user_id, asyncs, console, lastCall, ncalls,
                 uncaught, lineIn, lineOut, linePc,
                 nsets, given, invoked, startTime, endTime, timeString>>

\* the caller: stream.end()
callerEnds(s) ==
  /\ Idle
  /\ streams[s].owner = "caller" /\ streams[s].state = "open"
  /\ streams' = [streams EXCEPT ![s] = end(@, "caller")]
  /\ UNCHANGED <<options, schema, count, user_id, asyncs, console, lastCall, ncalls,
                 uncaught, lineIn, lineOut, linePc,
                 nsets, given, invoked, startTime, endTime, timeString>>

\* the listeners of one event run in the order they were registered
RECURSIVE runListeners(_, _, _)
runListeners(listeners, state, err) ==
  IF listeners = <<>> THEN state
  ELSE LET l == Head(listeners)
           next ==
             CASE l.kind = "logEndMessage" ->
                    [state EXCEPT !.console = logEndMessage(options, @)]
               [] l.kind = "resolve" ->
                    [state EXCEPT !.asyncs[l.id].inner =
                                     IF @ = "pending" THEN "fulfilled" ELSE @]
               [] l.kind = "reject" ->
                    [state EXCEPT
                       !.asyncs[l.id].err =
                          IF state.asyncs[l.id].inner = "pending" THEN err ELSE @,
                       !.asyncs[l.id].inner =
                          IF @ = "pending" THEN "rejected" ELSE @]
       IN runListeners(Tail(listeners), next, err)

\* the stream has flushed everything after end(): it emits 'finish'
emitFinish(s) ==
  /\ Idle
  /\ streams[s].state = "ended"
  /\ LET after == runListeners(streams[s].onFinish,
                               [console |-> console, asyncs |-> asyncs], "none")
     IN /\ console' = after.console
        /\ asyncs' = after.asyncs
  /\ streams' = [streams EXCEPT ![s].state = "finished", ![s].signal = "finish",
                                ![s].missed = (streams[s].onFinish = <<>>)]
  /\ UNCHANGED <<options, schema, count, user_id, lastCall, ncalls, uncaught, lineIn,
                 lineOut, linePc,
                 nsets, given, invoked, startTime, endTime, timeString>>

\* the underlying file fails (it cannot be opened, the disk is full): the
\* stream emits 'error' and is destroyed; with no listener the error is
\* thrown and ends the process
emitError(s, err) ==
  /\ Idle
  /\ streams[s].state \in {"open", "ended"}
  /\ LET after == runListeners(streams[s].onError,
                               [console |-> console, asyncs |-> asyncs], err)
     IN /\ console' = after.console
        /\ asyncs' = after.asyncs
  /\ streams' = [streams EXCEPT ![s].state = "errored", ![s].signal = "error",
                                ![s].err = err,
                                ![s].missed = (streams[s].onError = <<>>)]
  /\ uncaught' = (streams[s].onError = <<>>)
  /\ UNCHANGED <<options, schema, count, user_id, lastCall, ncalls, lineIn, lineOut, linePc,
                 nsets, given, invoked, startTime, endTime, timeString>>

(***************************************************************************)
(* The specification of the writer.  A behaviour is one caller: one        *)
(* Mock2CSV instance, one schema and one record count, fixed at Init, and  *)
(* then any sequence of the public methods called with them, the caller's  *)
(* own streams, and the events of the streams.                             *)
(***************************************************************************)
\* what callers pass to new Mock2CSV(options)
CtorOverrides ==
  << << >>,
     [header |-> FALSE],
     [delimiter |-> <<";">>],
     [quote |-> <<"'">>],
     [escape |-> <<"-">>],
     [header |-> FALSE, logging |-> TRUE] >>

Init ==
  /\ \E o \in 1..Len(CtorOverrides) :
       /\ options = constructor(CtorOverrides[o])
       /\ given = CtorOverrides[o]
  /\ \E i \in 1..Len(Schemas) : schema = Schemas[i]
  /\ count \in RecordNums
  /\ user_id = 1
  /\ streams = <<>>
  /\ asyncs = <<>>
  /\ console = <<>>
  /\ lastCall = NoCall
  /\ ncalls = 0
  /\ uncaught = FALSE
  /\ lineIn = <<>>
  /\ lineOut = <<>>
  /\ linePc = "none"
  /\ nsets = 0
  /\ invoked = <<>>
  /\ startTime = 0
  /\ endTime = 0
  /\ timeString = <<>>

Next ==
  \/ generate(count)
  \/ generateAsync(count)
  \/ \E s \in 1..Len(streams) : generateToStream(count, s)
  \/ callGenerateRecordString(count)
  \/ \E a \in 1..Len(asyncs) : resumeAsync(a)
  \/ callerCreatesStream
  \/ \E s \in 1..Len(streams) : callerEnds(s)
  \/ \E s \in 1..Len(streams) : emitFinish(s)
  \/ \E s \in 1..Len(streams), e \in Errors : emitError(s, e)

Spec == Init /\ [][Next]_vars

(***************************************************************************)
(* The writer with its setters: one caller who, between the calls and the  *)
(* events of Spec, also calls the setters (at most MaxSets times), with    *)
(* the schema of the tests and one record per call.                        *)
(***************************************************************************)
InitConfig ==
  /\ Init
  /\ schema = testSchema
  /\ count = 1

NextConfig ==
  \/ Next
  \/ setters

SpecConfig == InitConfig /\ [][NextConfig]_vars

(***************************************************************************)
(* The writer on a long call: generate and generateToStream asked for      *)
(* ProgressEvery records, the count after which an earlier version of      *)
(* generate reported its progress (if (i % 10000 === 0) writeProgress),    *)
(* with logging enabled and with logging left disabled.  The schema has no *)
(* column: every record is its newLine.                                    *)
(***************************************************************************)
ProgressEvery == 10000

ProgressOverrides ==
  << [logging |-> TRUE], [header |-> FALSE, logging |-> TRUE], << >> >>

InitProgress ==
  /\ \E o \in 1..Len(ProgressOverrides) :
       /\ options = constructor(ProgressOverrides[o])
       /\ given = ProgressOverrides[o]
  /\ schema = emptySchema
  /\ count = ProgressEvery
  /\ user_id = 1
  /\ streams = <<>>
  /\ asyncs = <<>>
  /\ console = <<>>
  /\ lastCall = NoCall
  /\ ncalls = 0
  /\ uncaught = FALSE
  /\ lineIn = <<>>
  /\ lineOut = <<>>
  /\ linePc = "none"
  /\ nsets = 0
  /\ invoked = <<>>
  /\ startTime = 0
  /\ endTime = 0
  /\ timeString = <<>>

NextProgress ==
  \/ generate(count)
  \/ \E s \in 1..Len(streams) : generateToStream(count, s)
  \/ callerCreatesStream
  \/ \E s \in 1..Len(streams) : callerEnds(s)
  \/ \E s \in 1..Len(streams) : emitFinish(s)
  \/ \E s \in 1..Len(streams), e \in Errors : emitError(s, e)

SpecProgress == InitProgress /\ [][NextProgress]_vars

(***************************************************************************)
(* The configuration alone: new Mock2CSV(options) for every overrides      *)
(* object that, field by field, leaves the field out, sets it to undefined *)
(* or sets it to a value, and then the setters.  (Only the string fields   *)
(* are set to undefined here; a header or logging set to undefined is kept *)
(* by the spread in the same way.)                                         *)
(***************************************************************************)
OptionFields == {"header", "delimiter", "quote", "escape", "newLine", "logging"}

\* the value a caller sets each field to
CallerValues ==
  [header |-> FALSE, delimiter |-> <<";">>, quote |-> <<"'">>, escape |-> <<"-">>,
   newLine |-> <<"\r", "\n">>, logging |-> TRUE]

\* what the caller does with each field of the overrides object
Picks ==
  {p \in [OptionFields -> {"absent", "undefined", "value"}] :
     \A f \in OptionFields : p[f] = "undefined" => f \in StringFields}

\* the overrides object of a pick
Overrides(pick) ==
  [f \in {g \in OptionFields : pick[g] # "absent"} |->
     IF pick[f] = "undefined" THEN Undefined ELSE CallerValues[f]]

InitOptions ==
  /\ \E pick \in Picks :
       /\ options = constructor(Overrides(pick))
       /\ given = Defined(Overrides(pick))
  /\ schema = emptySchema
  /\ count = 0
  /\ user_id = 1
  /\ streams = <<>>
  /\ asyncs = <<>>
  /\ console = <<>>
  /\ lastCall = NoCall
  /\ ncalls = 0
  /\ uncaught = FALSE
  /\ lineIn = <<>>
  /\ lineOut = <<>>
  /\ linePc = "none"
  /\ nsets = 0
  /\ invoked = <<>>
  /\ startTime = 0
  /\ endTime = 0
  /\ timeString = <<>>

NextOptions == setters

SpecOptions == InitOptions /\ [][NextOptions]_vars

(***************************************************************************)
(* The time label alone: getTimeString applied to start and end times in   *)
(* milliseconds.  A JavaScript number is a double: the quotients the code  *)
(* rounds are kept as exact fractions num / den, and where the double      *)
(* nearest to a fraction decides a rounding and is not the fraction        *)
(* itself, both roundings are outcomes.                                    *)
(***************************************************************************)
RECURSIVE Pow(_, _)
Pow(base, exp) == IF exp = 0 THEN 1 ELSE base * Pow(base, exp - 1)

\* num / den is a double exactly: its denominator in lowest terms is a power
\* of two (2^10 covers the denominators of the model)
IsExact(num, den) == \E k \in 0..10 : (num * Pow(2, k)) % den = 0

\* Number.prototype.toFixed(digits) of the double nearest to num / den, as
\* the integer n it prints with digits decimals: "let n be an integer for
\* which n / 10^f - x is as close to zero as possible; if there are two such
\* n, pick the larger n".  When num / den lies midway between two n and is
\* no double, the nearest double lies on one side: up tells which.
toFixed(num, den, digits, up) ==
  LET scaled == num * Pow(10, digits)
      q == scaled \div den
      r == scaled % den
  IN IF 2 * r > den THEN q + 1
     ELSE IF 2 * r < den THEN q
     ELSE IF IsExact(num, den) \/ up THEN q + 1
     ELSE q

\* the decimals of toFixed: n % 10^digits on digits places
RECURSIVE Decimals(_, _)
Decimals(n, digits) ==
  IF digits = 0 THEN <<>>
  ELSE Decimals(n \div 10, digits - 1) \o <<Digits[(n % 10) + 1]>>

\* the string toFixed(digits) returns for n
FixedString(n, digits) ==
  NumberToString(n \div Pow(10, digits))
    \o (IF digits = 0 THEN <<>> ELSE <<".">> \o Decimals(n, digits))

\* str without the zeros it ends with
RECURSIVE StripZeros(_)
StripZeros(str) ==
  IF str # <<>> /\ str[Len(str)] = "0" THEN StripZeros(sliceLast(str)) ELSE str

\* Number::toString of ms / 1000 in a template literal: the integer part
\* and, when there is a fraction, a point and its decimals
ThousandthsString(ms) ==
  NumberToString(ms \div 1000)
    \o (IF ms % 1000 = 0 THEN <<>> ELSE <<".">> \o StripZeros(Decimals(ms % 1000, 3)))

\* getTimeString(startTime, endTime) for startTime t0 and endTime t1
getTimeString(t0, t1, up) ==
  IF t1 - t0 > 60000
  THEN FixedString(toFixed(t1 - t0, 60000, 0, up), 0) \o <<"m", " ">>
         \o ThousandthsString((t1 - t0) % 60000) \o <<"s">>
  ELSE FixedString(toFixed(t1 - t0, 1000, 2, up), 2) \o <<"s">>

\* the elapsed times: around every whole and every half minute, and with
\* thousandths that round either way
Elapsed ==
  {m * 60000 + d : m \in 0..MaxMinutes,
                   d \in {0, 1, 5, 125, 995, 1005, 12340, 29999, 30000, 30001,
                          30500, 59999}}

StartTimes == {0, 1700}

InitTime ==
  /\ startTime \in StartTimes
  /\ \E e \in Elapsed : endTime = startTime + e
  /\ timeString = <<>>
  /\ options = DefaultOptions
  /\ schema = emptySchema
  /\ count = 0
  /\ user_id = 1
  /\ streams = <<>>
  /\ asyncs = <<>>
  /\ console = <<>>
  /\ lastCall = NoCall
  /\ ncalls = 0
  /\ uncaught = FALSE
  /\ lineIn = <<>>
  /\ lineOut = <<>>
  /\ linePc = "none"
  /\ nsets = 0
  /\ given = <<>>
  /\ invoked = <<>>

\* label = getTimeString(startTime, endTime)
formatTime ==
  /\ timeString = <<>>
  /\ \E up \in BOOLEAN : timeString' = getTimeString(startTime, endTime, up)
  /\ UNCHANGED <<options, schema, count, user_id, streams, asyncs, console, lastCall,
                 ncalls, uncaught, lineIn, lineOut, linePc, nsets, given, invoked,
                 startTime, endTime>>

NextTime == formatTime

SpecTime == InitTime /\ [][NextTime]_vars

(***************************************************************************)
(* The line formatter alone: getLineString applied to every sequence of    *)
(* at most MaxCols values of at most MaxValueLen characters, under every   *)
(* configuration of LineConfigs.                                           *)
(***************************************************************************)
ValueChars == {"a", "\"", "'", "$", "-", ","}
Values == UNION {[1..n -> ValueChars] : n \in 0..MaxValueLen}
ValueSeqs == UNION {[1..k -> Values] : k \in 0..MaxCols}

Delimiters == {<<",">>, <<>>, <<";", ";">>}
Quotes == {<<"\"">>, <<"'">>, <<"$">>, <<>>}
Escapes == {<<"\"">>, <<"-">>, <<"$">>}
NewLines == {<<"\n">>, <<"\r", "\n">>}

LineConfigs ==
  {[header |-> TRUE, delimiter |-> d, quote |-> q, escape |-> e,
    newLine |-> nl, logging |-> FALSE] :
     d \in Delimiters, q \in Quotes, e \in Escapes, nl \in NewLines}

InitLine ==
  /\ options \in LineConfigs
  /\ lineIn \in ValueSeqs
  /\ lineOut = <<>>
  /\ linePc = "input"
  /\ schema = emptySchema
  /\ count = 0
  /\ user_id = 1
  /\ streams = <<>>
  /\ asyncs = <<>>
  /\ console = <<>>
  /\ lastCall = NoCall
  /\ ncalls = 0
  /\ uncaught = FALSE
  /\ nsets = 0
  /\ given = <<>>
  /\ invoked = <<>>
  /\ startTime = 0
  /\ endTime = 0
  /\ timeString = <<>>

\* line = getLineString(values)
formatLine ==
  /\ linePc = "input"
  /\ lineOut' = getLineString(options, lineIn)
  /\ linePc' = "formatted"
  /\ UNCHANGED <<options, schema, count, user_id, streams, asyncs, console, lastCall,
                 ncalls, uncaught, lineIn,
                 nsets, given, invoked, startTime, endTime, timeString>>

NextLine == formatLine

SpecLine == InitLine /\ [][NextLine]_vars

(***************************************************************************)
(* What the claims are stated with                                         *)
(***************************************************************************)
\* the strings of strs with sep between each two
RECURSIVE Join(_, _)
Join(strs, sep) ==
  IF strs = <<>> THEN <<>>
  ELSE IF Len(strs) = 1 THEN strs[1]
  ELSE strs[1] \o sep \o Join(Tail(strs), sep)

\* the strings of strs one after the other
RECURSIVE Concat(_)
Concat(strs) == IF strs = <<>> THEN <<>> ELSE Head(strs) \o Concat(Tail(strs))

\* str from its 0-based position from on, every occurrence of pat replaced
\* by the text rep itself, leftmost first and without overlap
RECURSIVE ReplaceEvery(_, _, _, _)
ReplaceEvery(str, pat, rep, from) ==
  LET pos == StringIndexOf(str, pat, from)
  IN IF pos = -1 THEN SubSeq(str, from + 1, Len(str))
     ELSE IF pat = <<>>
     THEN rep \o (IF pos < Len(str)
                  THEN <<str[pos + 1]>> \o ReplaceEvery(str, pat, rep, pos + 1)
                  ELSE <<>>)
     ELSE SubSeq(str, from + 1, pos) \o rep
            \o ReplaceEvery(str, pat, rep, pos + Len(pat))

EndsWith(str, suffix) ==
  /\ Len(suffix) <= Len(str)
  /\ SubSeq(str, Len(str) - Len(suffix) + 1, Len(str)) = suffix

\* value between quotes, its quotes escaped by the code
Quoted(opts, value) == opts.quote \o escapeValue(opts, value) \o opts.quote

\* value between quotes, every quote in it written escape quote
QuotedLiterally(opts, value) ==
  opts.quote \o ReplaceEvery(value, opts.quote, opts.escape \o opts.quote, 0)
    \o opts.quote

\* C2: the line getLineString returns is its values, each between quotes,
\* with exactly one delimiter between two values and none after the last,
\* then newLine; with no value it is newLine.
C2_LineIsJoinedValues ==
  linePc = "formatted" =>
    lineOut = Join([i \in 1..Len(lineIn) |-> Quoted(options, lineIn[i])],
                   options.delimiter) \o options.newLine

\* C3: in the line every value stands between quotes with each occurrence
\* of quote in it replaced by escape then quote, and is otherwise unchanged
\* (stated for a delimiter of one character, so that the line's end is as
\* C2 describes it).
C3_QuotesEscapedLiterally ==
  (linePc = "formatted" /\ Len(options.delimiter) = 1) =>
    lineOut = Join([i \in 1..Len(lineIn) |-> QuotedLiterally(options, lineIn[i])],
                   options.delimiter) \o options.newLine

\* the field of a line of one value: the line without its newLine and its
\* two quotes
FieldOf(opts, line) ==
  SubSeq(line, Len(opts.quote) + 1, Len(line) - Len(opts.newLine) - Len(opts.quote))

\* C4: the escaped form of a value that holds the quote, as the line shows
\* it, gives the value back when every escape quote pair in it is reduced
\* to quote (lines of one value, a delimiter of one character).
C4_EscapeRoundTrips ==
  (/\ linePc = "formatted"
   /\ Len(lineIn) = 1
   /\ Len(options.delimiter) = 1
   /\ includes(lineIn[1], options.quote)) =>
    ReplaceEvery(FieldOf(options, lineOut), options.escape \o options.quote,
                 options.quote, 0) = lineIn[1]

\* the chunks the k-th call on stream st wrote
Segment(st, k) ==
  SubSeq(st.chunks, st.calls[k].before + 1,
         IF k < Len(st.calls) THEN st.calls[k + 1].before ELSE Len(st.chunks))

\* the keys of sch in the order they were inserted
InsertionKeys(sch) == [i \in 1..Len(sch) |-> sch[i].key]

\* n record lines, one after the other, the columns taken in the order of
\* keys, the counter at uid before the first
RECURSIVE ExpectedRecords(_, _, _, _, _)
ExpectedRecords(opts, sch, keys, n, uid) ==
  IF n <= 0 THEN <<>>
  ELSE LET m == mapGenerators(sch, keys, uid)
       IN <<getLineString(opts, m.values)>>
            \o ExpectedRecords(opts, sch, keys, n - 1, m.uid)

\* the header line if the options ask for one, then n record lines
ExpectedChunks(opts, sch, keys, n, uid) ==
  (IF opts.header THEN <<getLineString(opts, keys)>> ELSE <<>>)
    \o ExpectedRecords(opts, sch, keys, n, uid)

\* some key or constant value of sch holds pat
SchemaHolds(sch, pat) ==
  \E i \in 1..Len(sch) : includes(sch[i].key, pat) \/ includes(sch[i].val, pat)

\* C1: a generate or generateToStream call for n >= 0 records delivers
\* (1 if header else 0) + n lines to its sink, each ending with newLine (and
\* holding newLine nowhere else when no key or value holds it); for n = 0
\* that is the header line alone, or nothing.
C1_LineCount ==
  \A s \in 1..Len(streams) : \A k \in 1..Len(streams[s].calls) :
    LET c == streams[s].calls[k]
        seg == Segment(streams[s], k)
    IN (c.op \in {"generate", "generateToStream"} /\ c.n >= 0) =>
         /\ Len(seg) = (IF c.opts.header THEN 1 ELSE 0) + c.n
         /\ \A j \in 1..Len(seg) :
              /\ EndsWith(seg[j], c.opts.newLine)
              /\ ~SchemaHolds(schema, c.opts.newLine) =>
                   StringIndexOf(seg[j], c.opts.newLine, 0)
                     = Len(seg[j]) - Len(c.opts.newLine)
         /\ c.n = 0 =>
              seg = IF c.opts.header THEN <<getHeaderLine(c.opts, schema)>> ELSE <<>>

C1_Witness ==
  \E s \in 1..Len(streams) : \E k \in 1..Len(streams[s].calls) :
    /\ streams[s].calls[k].op = "generateToStream"
    /\ streams[s].calls[k].n = MaxRecords
    /\ streams[s].calls[k].opts.header
    /\ k = 2
    /\ Len(Segment(streams[s], k)) = MaxRecords + 1

\* C5: the header line lists the schema's keys in the order they were
\* inserted, and the i-th field of every record line is the value of the
\* i-th inserted column's generator.
C5_InsertionOrder ==
  \A s \in 1..Len(streams) : \A k \in 1..Len(streams[s].calls) :
    LET c == streams[s].calls[k]
    IN Segment(streams[s], k)
         = ExpectedChunks(c.opts, schema, InsertionKeys(schema), c.n, c.uid)

\* C6: generateRecordString returns n record lines one after the other and
\* no header line, whatever options.header is, and writes to no stream; for
\* n = 0 it returns the empty string.
C6_RecordStringOnly ==
  [][(ncalls' = ncalls + 1 /\ lastCall'.op = "generateRecordString") =>
       /\ streams' = streams
       /\ console' = console
       /\ lastCall'.ret = Concat(ExpectedRecords(options, schema, ObjectKeys(schema),
                                                 lastCall'.n, user_id))
       /\ lastCall'.n = 0 => lastCall'.ret = <<>>]_vars

C6_Witness ==
  /\ lastCall.op = "generateRecordString"
  /\ lastCall.n = MaxRecords
  /\ lastCall.opts.header
  /\ schema # emptySchema
  /\ Len(lastCall.ret) > 0

\* stream st got one generation call and has been ended (by the method for
\* generate and generateAsync, by the caller for generateToStream)
Delivered(st) == Len(st.calls) = 1 /\ st.ends # <<>>

\* C7: generate, generateAsync and generateToStream followed by the
\* caller's end() deliver the same chunks for the same schema, count,
\* options and generator state: the header line if enabled, then what
\* generateRecordString returns.
C7_ModesEquivalent ==
  /\ \A s \in 1..Len(streams) :
       Delivered(streams[s]) =>
         LET c == streams[s].calls[1]
         IN /\ Concat(streams[s].chunks)
                 = (IF c.opts.header THEN getHeaderLine(c.opts, schema) ELSE <<>>)
                     \o generateRecordString(c.opts, schema, c.n, c.uid).csvString
            /\ Len(streams[s].chunks)
                 = (IF c.opts.header THEN 1 ELSE 0) + (IF c.n > 0 THEN c.n ELSE 0)
  /\ \A s, t \in 1..Len(streams) :
       (/\ Delivered(streams[s]) /\ Delivered(streams[t])
        /\ streams[s].calls[1].opts = streams[t].calls[1].opts
        /\ streams[s].calls[1].n = streams[t].calls[1].n
        /\ streams[s].calls[1].uid = streams[t].calls[1].uid) =>
         streams[s].chunks = streams[t].chunks

C7_Witness ==
  \E s, t \in 1..Len(streams) :
    /\ Delivered(streams[s]) /\ Delivered(streams[t])
    /\ streams[s].calls[1].op = "generateToStream"
    /\ streams[t].calls[1].op = "generateAsync"
    /\ streams[s].calls[1].n = MaxRecords
    /\ streams[t].calls[1].n = MaxRecords
    /\ streams[s].calls[1].uid = streams[t].calls[1].uid
    /\ streams[s].calls[1].opts.header
    /\ Len(streams[s].chunks) = MaxRecords + 1
    /\ streams[s].chunks = streams[t].chunks

\* C8: generateToStream never ends the caller's stream, which still accepts
\* writes after it returns; generate and generateAsync end the stream they
\* created exactly once, after the last record was written.
C8_SinkOwnership ==
  \A s \in 1..Len(streams) :
    LET st == streams[s]
    IN /\ st.owner = "caller" =>
            /\ \A e \in 1..Len(st.ends) : st.ends[e] = "caller"
            /\ (st.ends = <<>> /\ st.signal = "none") => st.state = "open"
       /\ st.owner = "writer" =>
            /\ st.ends = <<"writer">>
            /\ st.endAt = Len(st.chunks)
            /\ Len(st.calls) = 1
            /\ Len(st.chunks) = (IF st.calls[1].opts.header THEN 1 ELSE 0)
                                  + (IF st.calls[1].n > 0 THEN st.calls[1].n ELSE 0)

C8_Witness ==
  \E s, t \in 1..Len(streams) :
    /\ streams[s].owner = "caller"
    /\ Len(streams[s].calls) = 1
    /\ streams[s].calls[1].n = MaxRecords
    /\ streams[s].state = "open"
    /\ streams[t].owner = "writer"
    /\ streams[t].calls[1].n = MaxRecords
    /\ streams[t].ends = <<"writer">>

\* C9: the result of generateAsync is settled by the signal of its stream
\* and by nothing else: fulfilled only after 'finish', rejected with the
\* stream's error after 'error', pending before either; and every signal
\* finds the listeners registered.
C9_AsyncSettlesOnSignal ==
  \A a \in 1..Len(asyncs) :
    LET st == streams[asyncs[a].stream]
    IN /\ asyncs[a].outer = "fulfilled" => st.signal = "finish"
       /\ asyncs[a].outer = "rejected" =>
            (st.signal = "error" /\ asyncs[a].err = st.err)
       /\ st.signal = "none" =>
            (asyncs[a].inner = "pending" /\ asyncs[a].outer = "pending")
       /\ st.signal = "finish" => asyncs[a].inner = "fulfilled"
       /\ st.signal = "error" =>
            (asyncs[a].inner = "rejected" /\ asyncs[a].err = st.err)
       /\ ~st.missed

C9_Witness ==
  \E a, b \in 1..Len(asyncs) :
    /\ asyncs[a].outer = "fulfilled"
    /\ streams[asyncs[a].stream].signal = "finish"
    /\ asyncs[b].outer = "rejected"
    /\ asyncs[b].err = "ENOSPC"

\* C10: a generation call with a negative recordCount fails with an
\* InvalidArgument error.
C10_NegativeCountFails ==
  lastCall.n < 0 => lastCall.threw = "InvalidArgument"

\* C11: after construction, and after every setter call with valid values,
\* each of the six options holds the last value the caller supplied for it,
\* or its default when the caller supplied none (the field was left out or
\* left undefined), and is never undefined.
C11_OptionsResolved ==
  \A f \in OptionFields :
    /\ f \in StringFields => options[f] # Undefined
    /\ f \notin StringFields => options[f] \in BOOLEAN
    /\ options[f] = IF f \in DOMAIN given THEN given[f] ELSE DefaultOptions[f]

\* C12: a setter call changes nothing of a call already made: it writes to
\* no stream and logs nothing, the chunks of a stream the writer created
\* never change after the call that wrote them, and when the stream of a
\* generate call emits finish the completion summary is logged exactly when
\* logging was enabled as generate was called.
C12_SettersLeaveCallsAlone ==
  [][/\ nsets' = nsets + 1 => (streams' = streams /\ console' = console)
     /\ \A s \in 1..Len(streams) :
          /\ streams[s].owner = "writer" => streams'[s].chunks = streams[s].chunks
          /\ (/\ streams[s].calls # <<>>
              /\ streams[s].calls[1].op = "generate"
              /\ streams[s].signal = "none"
              /\ streams'[s].signal = "finish") =>
               ((console' # console) <=> streams[s].calls[1].opts.logging)]_vars

\* keys, n times over
RECURSIVE Repeat(_, _)
Repeat(keys, n) == IF n <= 0 THEN <<>> ELSE keys \o Repeat(keys, n - 1)

\* the number of columns of sch whose generator advances the counter
Counters(sch) == Cardinality({i \in 1..Len(sch) : sch[i].kind = "counter"})

\* C13: a generation call for n records invokes the generators of the
\* schema's columns, in the schema's column order (the order its keys were
\* inserted), once for the first record, then once for the second, and so
\* on n times; emitting the header invokes none, so that nothing else is
\* invoked and a shared counter advances by one per counting column and
\* record.
C13_OncePerFieldPerRecord ==
  [][ncalls' = ncalls + 1 =>
       /\ invoked' = invoked \o Repeat(InsertionKeys(schema), lastCall'.n)
       /\ user_id' = user_id + Counters(schema)
                                 * (IF lastCall'.n > 0 THEN lastCall'.n ELSE 0)]_vars

\* the progress indicators the console shows
ProgressShown == Cardinality({i \in 1..Len(console) : console[i] = "Progress"})

\* C14: a generate or generateToStream call made with logging enabled has
\* put one progress indicator on the console for every ProgressEvery
\* records it wrote, and with no call made with logging enabled the console
\* shows none.
C14_ProgressReported ==
  /\ \A s \in 1..Len(streams) : \A k \in 1..Len(streams[s].calls) :
       LET c == streams[s].calls[k]
       IN (c.op \in {"generate", "generateToStream"} /\ c.opts.logging /\ c.n > 0) =>
            ProgressShown >= Len(Segment(streams[s], k)) \div ProgressEvery
  /\ (\A s \in 1..Len(streams) : \A k \in 1..Len(streams[s].calls) :
        ~streams[s].calls[k].opts.logging) => ProgressShown = 0

\* the completion summaries on out
DoneShown(out) == Cardinality({i \in 1..Len(out) : out[i] = "Done!"})

\* the streams of strs that the writer created and that have emitted finish
Finished(strs) ==
  Cardinality({s \in 1..Len(strs) :
                 strs[s].owner = "writer" /\ strs[s].signal = "finish"})

\* C15: the stream of a generate or generateAsync call holds the header line
\* (if enabled) first, then the record lines in the order of their index,
\* and was ended once, after the last of them; the call returns with the
\* stream ended and no event delivered, no listener run and no summary
\* printed in between; nothing is written to the stream afterwards; and
\* every completion summary on the console follows the finish of its stream.
C15_OrderedSink ==
  [][/\ \A s \in 1..Len(streams') :
          streams'[s].owner = "writer" =>
            LET st == streams'[s]
                c == st.calls[1]
            IN /\ st.chunks = ExpectedChunks(c.opts, schema, ObjectKeys(schema),
                                              c.n, c.uid)
               /\ st.ends = <<"writer">>
               /\ st.endAt = Len(st.chunks)
               /\ s <= Len(streams) => st.chunks = streams[s].chunks
     /\ (ncalls' = ncalls + 1 /\ lastCall'.op \in {"generate", "generateAsync"}) =>
          /\ lastCall'.stream = Len(streams) + 1
          /\ streams'[Len(streams) + 1].state = "ended"
          /\ streams'[Len(streams) + 1].signal = "none"
          /\ SubSeq(streams', 1, Len(streams)) = streams
          /\ SubSeq(asyncs', 1, Len(asyncs)) = asyncs
          /\ DoneShown(console') = DoneShown(console)
     /\ DoneShown(console') <= Finished(streams')]_vars

C15_Witness ==
  \E s, t \in 1..Len(streams) :
    /\ streams[s].owner = "writer" /\ streams[t].owner = "writer"
    /\ streams[s].calls[1].op = "generate"
    /\ streams[t].calls[1].op = "generateAsync"
    /\ streams[s].calls[1].n = MaxRecords
    /\ streams[s].calls[1].opts.logging
    /\ Len(streams[s].chunks) = MaxRecords
    /\ streams[s].signal = "finish"
    /\ streams[t].signal = "finish"
    /\ DoneShown(console) = 2

\* C16: for an elapsed time of at most 60000 ms the label is the elapsed
\* seconds with two decimals (one of the two hundredths next to the elapsed
\* time, at most half a hundredth away); for a longer one it is "<m>m <s>s"
\* with m the whole minutes, elapsed \div 60000, and s the seconds left,
\* (elapsed % 60000) / 1000.
C16_TimeLabel ==
  timeString # <<>> =>
    LET elapsed == endTime - startTime
    IN IF elapsed <= 60000
       THEN \E n \in {elapsed \div 10, elapsed \div 10 + 1} :
              /\ 10 * n - elapsed \in -5..5
              /\ timeString = FixedString(n, 2) \o <<"s">>
       ELSE timeString = NumberToString(elapsed \div 60000) \o <<"m", " ">>
                           \o ThousandthsString(elapsed % 60000) \o <<"s">>

====
